---- MODULE Spec2Model ----
(***************************************************************************)
(* FocusLock (src/App.tsx): the capture session of the App component.      *)
(*                                                                         *)
(* The component's React state (devices, selectedDeviceId, error,          *)
(* capabilities, settings), its stream ref, and the promises it has in     *)
(* flight with the host capture API (getUserMedia, enumerateDevices,       *)
(* applyConstraints) are the state.  One action per event handler, effect  *)
(* or promise continuation.  A state update and the effects React runs     *)
(* when that update commits are one step.                                  *)
(*                                                                         *)
(* Optional values (a field the hardware does not report, a range the      *)
(* hardware does not advertise, a null ref) are sets with at most one      *)
(* element: {} is undefined/null, {v} is the value v.  The step of a       *)
(* capability range is left out: no statement below reads it.              *)
(***************************************************************************)
EXTENDS Integers, Sequences, FiniteSets, TLC

VARIABLES
    mounted,           \* the App component is mounted (the session is running)
    devices,           \* useState devices: sequence of device ids
    selectedDeviceId,  \* useState selectedDeviceId ("" = none)
    error,             \* useState error
    capabilities,      \* useState capabilities
    settings,          \* useState settings
    streamRef,         \* streamRef.current: {} (null) or {index into streams}
    streams,           \* every stream startStream obtained: [device, live, seq]
    opens,             \* startStream calls awaiting getUserMedia: [seq, device]
    issued,            \* number of startStream calls that reached getUserMedia
    enums,             \* getCameras calls in flight: [sel], the selectedDeviceId each closed over
    actions,           \* number of user actions so far (selections, refreshes, edits)
    permLive,          \* a stream obtained by getCameras' permission request has live tracks
    applies,           \* applyConstraints calls in flight: [stream, field, value]
    warned,            \* console.warn("Failed to apply constraint:") was called
    uncaught,          \* an exception left a handler uncaught
    recon,             \* inputs and result of one reconciliation (SpecReconcile)
    gens,              \* generateSystemScript calls awaited by handleGenerate: [key, at]
    isLoading,         \* ScriptGenerator useState isLoading
    genError,          \* ScriptGenerator useState error
    generatedScript    \* ScriptGenerator useState generatedScript ("" = none)

vars == <<mounted, devices, selectedDeviceId, error, capabilities, settings,
          streamRef, streams, opens, issued, enums, actions, permLive,
          applies, warned, uncaught, recon,
          gens, isLoading, genError, generatedScript>>

\* The state of the ScriptGenerator panel and of its service
scriptVars == <<gens, isLoading, genError, generatedScript>>

----------------------------------------------------------------------------
(* Bounds of the model *)

MaxActions == 2    \* user actions per session: device selections, refreshes, edits

----------------------------------------------------------------------------
(* Values *)

NoError == "null"
PermError == "Failed to access camera permissions. Please allow camera access."
StreamError == "Failed to start video stream. The camera might be in use by another app."

NumFields == {"focusDistance", "zoom", "brightness", "contrast"}

Rng(lo, hi) == [min |-> lo, max |-> hi]

The(s) == CHOOSE x \in s : TRUE

RemoveAt(q, i) == [j \in 1..(Len(q) - 1) |-> IF j < i THEN q[j] ELSE q[j + 1]]

\* useState<CameraCapabilities>({})
NoCapabilities == [f \in NumFields |-> {}]

DefaultFocusDistance == 0
DefaultZoom == 1
DefaultBrightness == 100
DefaultContrast == 100

\* useState<CameraSettings>({...})
InitialSettings ==
    [focusMode |-> "continuous",
     focusDistance |-> DefaultFocusDistance,
     zoom |-> DefaultZoom,
     brightness |-> DefaultBrightness,
     contrast |-> DefaultContrast]

----------------------------------------------------------------------------
(* The host capture API: the devices of the machine the session runs on *)

DeviceIds == {"a", "b"}

\* What enumerateDevices().filter(videoinput).map(...) can yield once the
\* permission request has been granted (there is a camera): device "a" may be
\* unplugged
EnumResults == {<<"a", "b">>, <<"b">>}

\* track.getCapabilities() of a stream of device d
HwCaps(d) ==
    IF d = "a"
    THEN [focusDistance |-> {}, zoom |-> {Rng(1, 5)},
          brightness |-> {Rng(0, 50)}, contrast |-> {}]
    ELSE [focusDistance |-> {Rng(0, 10)}, zoom |-> {},
          brightness |-> {Rng(-2, 2)}, contrast |-> {Rng(0, 50)}]

\* track.getSettings() of a freshly opened stream of device d
HwReports(d) ==
    IF d = "a"
    THEN {[focusMode |-> {"continuous"}, focusDistance |-> {}, zoom |-> {1},
           brightness |-> {25}, contrast |-> {}],
          [focusMode |-> {}, focusDistance |-> {}, zoom |-> {2},
           brightness |-> {0}, contrast |-> {}]}
    ELSE {[focusMode |-> {"manual"}, focusDistance |-> {5}, zoom |-> {},
           brightness |-> {0}, contrast |-> {50}],
          [focusMode |-> {"single-shot"}, focusDistance |-> {0}, zoom |-> {},
           brightness |-> {-2}, contrast |-> {}]}

----------------------------------------------------------------------------
(* Pure parts of the handlers *)

\* JavaScript truthiness of an optional number: undefined and 0 are falsy
Truthy(opt) == opt # {} /\ opt # {0}

\* hwValue || range?.min || dflt
OrMinOrDefault(hwValue, range, dflt) ==
    IF Truthy(hwValue) THEN The(hwValue)
    ELSE IF range # {} /\ The(range).min # 0 THEN The(range).min
    ELSE dflt

\* The updater passed to setSettings after a successful open
reconcile(prev, caps, hw) ==
    [prev EXCEPT
        !.focusMode = IF hw.focusMode # {} THEN The(hw.focusMode) ELSE "continuous",
        !.focusDistance = OrMinOrDefault(hw.focusDistance, caps.focusDistance, 0),
        !.zoom = OrMinOrDefault(hw.zoom, caps.zoom, 1),
        !.brightness = OrMinOrDefault(hw.brightness, caps.brightness, 100),
        !.contrast = OrMinOrDefault(hw.contrast, caps.contrast, 100)]

\* stopTracks had the release been left out
stopTracksSkipped(strs, ref) == strs

\* stopTracks had track.stop() switched the track instead of ending it
stopTracksToggling(strs, ref) ==
    [i \in DOMAIN strs |-> IF i \in ref THEN [strs[i] EXCEPT !.live = ~@] ELSE strs[i]]

\* ref.getTracks().forEach(track => track.stop()), guarded by if (ref)
stopTracks(strs, ref) ==
    [i \in DOMAIN strs |-> IF i \in ref THEN [strs[i] EXCEPT !.live = FALSE] ELSE strs[i]]

\* A state setter called on the component: React drops it once unmounted
SetState(old, new) == IF mounted THEN new ELSE old

\* applyConstraintCatch had it shown the failure the way startStream's catch does
applyConstraintCatchSetsError(st) == [error |-> StreamError, uncaught |-> st.uncaught]

\* The catch block of applyConstraint: console.warn, nothing else
applyConstraintCatch(st) == [error |-> st.error, uncaught |-> st.uncaught]

\* updateSetting had it spread the settings of the first render instead of prev
updateSettingFromStaleCopy(prev, key, value) == [InitialSettings EXCEPT ![key] = value]

\* The updater updateSetting passes to setSettings: prev => ({...prev, [key]: value})
updateSettingUpdater(prev, key, value) == [prev EXCEPT ![key] = value]

MissingKeyError == "API Key is missing. Please set the API_KEY environment variable in your deployment settings."

\* Messages of the errors the text-generation service call can throw
ServiceErrors == {"quota exceeded"}

\* generateSystemScript had it no test of the key before the service call
generateSystemScriptUnchecked(key) == [key |-> key, at |-> "service"]

\* generateSystemScript up to its first await, key telling whether
\* process.env.API_KEY is set: without a key it throws before the service is
\* called (at "nokey": the promise is already rejected), with one it awaits
\* ai.models.generateContent (at "service")
generateSystemScript(key) == [key |-> key, at |-> IF ~key THEN "nokey" ELSE "service"]

\* The generate button had it no disabled prop
generateNeverDisabled(loading) == FALSE

\* disabled={isLoading} of the generate button
generateDisabled(loading) == loading

\* handleGenerateCatch had it reported the failure in the error banner of App
handleGenerateCatchSetsAppError(st, msg) == [error |-> msg, genError |-> st.genError]

\* The catch block of handleGenerate: setError of the panel, nothing else
handleGenerateCatch(st, msg) == [error |-> st.error, genError |-> msg]

\* The constraint object { [key]: value } handed to applyConstraints
Constraint(key, num, mode) ==
    [stream |-> The(streamRef), field |-> key, num |-> num, mode |-> mode]

\* min/max props of the three ControlSliders
SliderRange(key) ==
    IF capabilities[key] # {} THEN The(capabilities[key])
    ELSE IF key = "focusDistance" THEN Rng(0, 1)
    ELSE IF key = "zoom" THEN Rng(1, 5)
    ELSE Rng(0, 255)

\* The positions a slider is dragged to
SliderValues(key) == {SliderRange(key).max}

SliderFields == {"focusDistance", "zoom", "brightness"}

----------------------------------------------------------------------------
(* The session *)

NoRecon == [done |-> FALSE]

\* The state after the first render and its effects: getCameras() is in
\* flight, the stream effect did nothing (selectedDeviceId is '')
InitSession ==
    /\ mounted = TRUE
    /\ devices = <<>>
    /\ selectedDeviceId = ""
    /\ error = NoError
    /\ capabilities = NoCapabilities
    /\ settings = InitialSettings
    /\ streamRef = {}
    /\ streams = <<>>
    /\ opens = <<>>
    /\ issued = 0
    /\ enums = <<[sel |-> ""]>>
    /\ actions = 0
    /\ permLive = FALSE
    /\ applies = <<>>
    /\ warned = FALSE
    /\ uncaught = FALSE
    /\ gens = <<>>
    /\ isLoading = FALSE
    /\ genError = NoError
    /\ generatedScript = ""

Init == InitSession /\ recon = NoRecon

\* selectedDeviceId changes to d and the render commits: the cleanup of the
\* stream effect, the getCameras effect (getCameras is a new callback), then
\* the stream effect, startStream() up to its await.  pendingEnums is the
\* getCameras calls in flight before the commit.
CommitSelection(d, pendingEnums) ==
    /\ selectedDeviceId' = d
    /\ streams' = stopTracks(stopTracks(streams, streamRef), streamRef)
    /\ enums' = Append(pendingEnums, [sel |-> d])
    /\ opens' = Append(opens, [seq |-> issued + 1, device |-> d])
    /\ issued' = issued + 1

\* The user picks another option of the device select
SelectDevice(d) ==
    /\ mounted
    /\ actions < MaxActions
    /\ \E i \in DOMAIN devices : devices[i] = d
    /\ d # selectedDeviceId
    /\ CommitSelection(d, enums)
    /\ actions' = actions + 1
    /\ UNCHANGED <<mounted, devices, error, capabilities, settings, streamRef,
                   permLive, applies, warned, uncaught, recon, scriptVars>>

\* The user clicks Refresh Devices: getCameras() up to its first await
Refresh ==
    /\ mounted
    /\ actions < MaxActions
    /\ enums' = Append(enums, [sel |-> selectedDeviceId])
    /\ actions' = actions + 1
    /\ UNCHANGED <<mounted, devices, selectedDeviceId, error, capabilities, settings,
                   streamRef, streams, opens, issued, permLive, applies, warned,
                   uncaught, recon, scriptVars>>

\* getCameras: getUserMedia({ video: true }) rejects
PermissionDenied(i) ==
    /\ enums' = RemoveAt(enums, i)
    /\ error' = SetState(error, PermError)
    /\ UNCHANGED <<mounted, devices, selectedDeviceId, capabilities, settings,
                   streamRef, streams, opens, issued, actions, permLive,
                   applies, warned, uncaught, recon, scriptVars>>

\* getCameras: getUserMedia({ video: true }) resolves, the stream it yields is
\* dropped without being stopped, and enumerateDevices() resolves with the
\* video inputs list (no session state is read or written between the two)
EnumerateResolve(i, list) ==
    /\ permLive' = TRUE
    /\ devices' = SetState(devices, list)
    /\ IF mounted /\ Len(list) > 0 /\ enums[i].sel = "" /\ list[1] # selectedDeviceId
       THEN CommitSelection(list[1], RemoveAt(enums, i))
       ELSE /\ enums' = RemoveAt(enums, i)
            /\ UNCHANGED <<selectedDeviceId, streams, opens, issued>>
    /\ UNCHANGED <<mounted, error, capabilities, settings, streamRef, actions,
                   applies, warned, uncaught, recon, scriptVars>>

\* OpenResolve had startStream not called setError(null) after a successful open
OpenResolveKeepsError(i, hw) ==
    /\ hw \in HwReports(opens[i].device)
    /\ opens' = RemoveAt(opens, i)
    /\ streams' = Append(streams, [device |-> opens[i].device, live |-> TRUE,
                                   seq |-> opens[i].seq])
    /\ streamRef' = {Len(streams) + 1}
    /\ capabilities' = SetState(capabilities, HwCaps(opens[i].device))
    /\ settings' = SetState(settings, reconcile(settings, HwCaps(opens[i].device), hw))
    /\ error' = error
    /\ UNCHANGED <<mounted, devices, selectedDeviceId, issued, enums, actions,
                   permLive, applies, warned, uncaught, recon, scriptVars>>

\* OpenResolve had startStream not called setCapabilities(caps)
OpenResolveKeepsCapabilities(i, hw) ==
    /\ hw \in HwReports(opens[i].device)
    /\ opens' = RemoveAt(opens, i)
    /\ streams' = Append(streams, [device |-> opens[i].device, live |-> TRUE,
                                   seq |-> opens[i].seq])
    /\ streamRef' = {Len(streams) + 1}
    /\ capabilities' = capabilities
    /\ settings' = SetState(settings, reconcile(settings, HwCaps(opens[i].device), hw))
    /\ error' = SetState(error, NoError)
    /\ UNCHANGED <<mounted, devices, selectedDeviceId, issued, enums, actions,
                   permLive, applies, warned, uncaught, recon, scriptVars>>

\* startStream: getUserMedia resolves with a stream of the requested device
OpenResolve(i, hw) ==
    /\ hw \in HwReports(opens[i].device)
    /\ opens' = RemoveAt(opens, i)
    /\ streams' = Append(streams, [device |-> opens[i].device, live |-> TRUE,
                                   seq |-> opens[i].seq])
    /\ streamRef' = {Len(streams) + 1}
    /\ capabilities' = SetState(capabilities, HwCaps(opens[i].device))
    /\ settings' = SetState(settings, reconcile(settings, HwCaps(opens[i].device), hw))
    /\ error' = SetState(error, NoError)
    /\ UNCHANGED <<mounted, devices, selectedDeviceId, issued, enums, actions,
                   permLive, applies, warned, uncaught, recon, scriptVars>>

\* OpenReject had the catch block of startStream reset the capability set
OpenRejectResetsCapabilities(i) ==
    /\ opens' = RemoveAt(opens, i)
    /\ error' = SetState(error, StreamError)
    /\ capabilities' = SetState(capabilities, NoCapabilities)
    /\ UNCHANGED <<mounted, devices, selectedDeviceId, settings,
                   streamRef, streams, issued, enums, actions, permLive,
                   applies, warned, uncaught, recon, scriptVars>>

\* startStream: getUserMedia rejects
OpenReject(i) ==
    /\ opens' = RemoveAt(opens, i)
    /\ error' = SetState(error, StreamError)
    /\ UNCHANGED <<mounted, devices, selectedDeviceId, capabilities, settings,
                   streamRef, streams, issued, enums, actions, permLive,
                   applies, warned, uncaught, recon, scriptVars>>

\* SendConstraint had applyConstraint sent the whole settings model, field by
\* field, instead of the one constraint it is given
SendConstraintAllFields(key, num, mode) ==
    IF streamRef = {} THEN applies' = applies
    ELSE applies' = applies \o <<Constraint(key, num, mode),
                                 Constraint("focusMode", 0, settings.focusMode)>>

\* applyConstraint up to its await: nothing is sent while the ref is null
SendConstraint(key, num, mode) ==
    IF streamRef = {} THEN applies' = applies
    ELSE applies' = Append(applies, Constraint(key, num, mode))

\* The body of updateSetting(key, value)
updateSetting(key, value) ==
    /\ settings' = updateSettingUpdater(settings, key, value)
    /\ SendConstraint(key, value, "")
    /\ UNCHANGED <<mounted, devices, selectedDeviceId, error, capabilities, streamRef,
                   streams, opens, issued, enums, permLive, warned,
                   uncaught, recon, scriptVars>>

\* disabled={settings.focusMode === 'continuous'} of the focus slider; the
\* other sliders are never disabled
sliderDisabled(key) == key = "focusDistance" /\ settings.focusMode = "continuous"

\* A slider's onChange: updateSetting(key, value) with the value dragged to
UpdateSetting(key, value) ==
    /\ mounted
    /\ actions < MaxActions
    /\ actions' = actions + 1
    /\ ~sliderDisabled(key)
    /\ value \in SliderValues(key)
    /\ value # settings[key]
    /\ updateSetting(key, value)

\* toggleFocusMode from the Autofocus button
ToggleFocusMode ==
    /\ mounted
    /\ actions < MaxActions
    /\ actions' = actions + 1
    /\ LET newMode == IF settings.focusMode = "continuous" THEN "manual" ELSE "continuous"
       IN /\ settings' = updateSettingUpdater(settings, "focusMode", newMode)
          /\ SendConstraint("focusMode", 0, newMode)
    /\ UNCHANGED <<mounted, devices, selectedDeviceId, error, capabilities, streamRef,
                   streams, opens, issued, enums, permLive, warned,
                   uncaught, recon, scriptVars>>

\* applyConstraint: track.applyConstraints resolves
ApplyAccepted(i) ==
    /\ applies' = RemoveAt(applies, i)
    /\ UNCHANGED <<mounted, devices, selectedDeviceId, error, capabilities, settings,
                   streamRef, streams, opens, issued, enums, actions, permLive,
                   warned, uncaught, recon, scriptVars>>

\* applyConstraint: track.applyConstraints rejects
ApplyRejected(i) ==
    /\ applies' = RemoveAt(applies, i)
    /\ warned' = TRUE
    /\ LET after == applyConstraintCatch([error |-> error, uncaught |-> uncaught])
       IN /\ error' = after.error
          /\ uncaught' = after.uncaught
    /\ UNCHANGED <<mounted, devices, selectedDeviceId, capabilities, settings,
                   streamRef, streams, opens, issued, enums, actions, permLive,
                   recon, scriptVars>>

\* The component unmounts: the cleanup of the stream effect runs
Unmount ==
    /\ mounted
    /\ mounted' = FALSE
    /\ streams' = stopTracks(streams, streamRef)
    /\ UNCHANGED <<devices, selectedDeviceId, error, capabilities, settings, streamRef,
                   opens, issued, enums, actions, permLive, applies, warned,
                   uncaught, recon, scriptVars>>

captureVars == <<mounted, devices, selectedDeviceId, capabilities, settings,
                 streamRef, streams, opens, issued, enums, permLive, applies,
                 warned, uncaught, recon>>

\* The user clicks the generate button: handleGenerate up to its await
Generate(key) ==
    /\ mounted
    /\ actions < MaxActions
    /\ ~generateDisabled(isLoading)
    /\ isLoading' = TRUE
    /\ genError' = NoError
    /\ gens' = Append(gens, generateSystemScript(key))
    /\ actions' = actions + 1
    /\ UNCHANGED <<captureVars, error, generatedScript>>

\* handleGenerate after generateSystemScript threw for the missing key
GenerateMissingKey(i) ==
    /\ gens[i].at = "nokey"
    /\ gens' = RemoveAt(gens, i)
    /\ LET after == handleGenerateCatch([error |-> error, genError |-> genError],
                                        MissingKeyError)
       IN /\ error' = SetState(error, after.error)
          /\ genError' = SetState(genError, after.genError)
    /\ isLoading' = SetState(isLoading, FALSE)
    /\ UNCHANGED <<captureVars, actions, generatedScript>>

\* handleGenerate after the service call resolved with the script text
GenerateResolve(i) ==
    /\ gens[i].at = "service"
    /\ gens' = RemoveAt(gens, i)
    /\ generatedScript' = SetState(generatedScript, "script")
    /\ isLoading' = SetState(isLoading, FALSE)
    /\ UNCHANGED <<captureVars, error, actions, genError>>

\* handleGenerate after the service call failed and the error was re-thrown
GenerateReject(i, msg) ==
    /\ gens[i].at = "service"
    /\ gens' = RemoveAt(gens, i)
    /\ LET after == handleGenerateCatch([error |-> error, genError |-> genError], msg)
       IN /\ error' = SetState(error, after.error)
          /\ genError' = SetState(genError, after.genError)
    /\ isLoading' = SetState(isLoading, FALSE)
    /\ UNCHANGED <<captureVars, actions, generatedScript>>

Next ==
    \/ \E d \in DeviceIds : SelectDevice(d)
    \/ Refresh
    \/ \E i \in DOMAIN enums : PermissionDenied(i)
    \/ \E i \in DOMAIN enums, list \in EnumResults : EnumerateResolve(i, list)
    \/ \E i \in DOMAIN opens : \E hw \in HwReports(opens[i].device) : OpenResolve(i, hw)
    \/ \E i \in DOMAIN opens : OpenReject(i)
    \/ \E key \in SliderFields : \E value \in SliderValues(key) : UpdateSetting(key, value)
    \/ ToggleFocusMode
    \/ \E i \in DOMAIN applies : ApplyAccepted(i)
    \/ \E i \in DOMAIN applies : ApplyRejected(i)
    \/ Unmount
    \/ \E key \in BOOLEAN : Generate(key)
    \/ \E i \in DOMAIN gens : GenerateMissingKey(i)
    \/ \E i \in DOMAIN gens : GenerateResolve(i)
    \/ \E i \in DOMAIN gens, msg \in ServiceErrors : GenerateReject(i, msg)

Spec == Init /\ [][Next]_vars

----------------------------------------------------------------------------
(* Reconciliation on its own: the setSettings updater of startStream applied *)
(* to any prior settings, capability set and hardware report                 *)

RangeChoices == {{}, {Rng(0, 3)}, {Rng(1, 5)}, {Rng(-2, 2)}}

\* What the hardware may report for a field: nothing, or a value of the
\* advertised range (its ends, and 0 when the range holds it)
ReportChoices(range) ==
    IF range = {} THEN {{}, {7}}
    ELSE {{}, {The(range).min}, {The(range).max}}
         \cup (IF The(range).min < 0 /\ The(range).max > 0 THEN {{0}} ELSE {})

PriorChoices ==
    {InitialSettings,
     [focusMode |-> "manual", focusDistance |-> 1, zoom |-> 5,
      brightness |-> 255, contrast |-> 50]}

CapsChoices == [NumFields -> RangeChoices]

HwChoices(caps) ==
    {hw \in [focusMode : {{}, {"manual"}, {"single-shot"}},
             focusDistance : ReportChoices(caps.focusDistance),
             zoom : ReportChoices(caps.zoom),
             brightness : ReportChoices(caps.brightness),
             contrast : ReportChoices(caps.contrast)] : TRUE}

InitReconcile ==
    /\ InitSession
    /\ \E prior \in PriorChoices, caps \in CapsChoices :
         \E hw \in HwChoices(caps) :
            recon = [done |-> FALSE, prior |-> prior, caps |-> caps, hw |-> hw,
                     out |-> prior]

Reconcile ==
    /\ ~recon.done
    /\ recon' = [recon EXCEPT !.done = TRUE,
                              !.out = reconcile(recon.prior, recon.caps, recon.hw)]
    /\ UNCHANGED <<mounted, devices, selectedDeviceId, error, capabilities, settings,
                   streamRef, streams, opens, issued, enums, actions, permLive,
                   applies, warned, uncaught, scriptVars>>

SpecReconcile == InitReconcile /\ [][Reconcile]_vars

----------------------------------------------------------------------------
(* The update handlers on their own: updateSetting called for any field in    *)
(* any focus mode, whatever the sliders allow                                 *)

\* The session after the open of the selected device: still in flight, or
\* resolved with one of the reports of the device and the focus mode toggled
\* or not since
InitUpdate ==
    /\ mounted = TRUE
    /\ devices = <<"a", "b">>
    /\ error = NoError
    /\ issued = 1
    /\ enums = <<>>
    /\ actions = 0
    /\ permLive = TRUE
    /\ applies = <<>>
    /\ warned = FALSE
    /\ uncaught = FALSE
    /\ gens = <<>>
    /\ isLoading = FALSE
    /\ genError = NoError
    /\ generatedScript = ""
    /\ recon = NoRecon
    /\ \E d \in DeviceIds :
         /\ selectedDeviceId = d
         /\ \/ /\ opens = <<[seq |-> 1, device |-> d]>>
               /\ streams = <<>>
               /\ streamRef = {}
               /\ capabilities = NoCapabilities
               /\ \E m \in {"continuous", "manual"} :
                    settings = [InitialSettings EXCEPT !.focusMode = m]
            \/ /\ opens = <<>>
               /\ streams = <<[device |-> d, live |-> TRUE, seq |-> 1]>>
               /\ streamRef = {1}
               /\ capabilities = HwCaps(d)
               /\ \E hw \in HwReports(d) :
                    LET opened == reconcile(InitialSettings, HwCaps(d), hw)
                    IN \E m \in {"continuous", "manual", opened.focusMode} :
                          settings = [opened EXCEPT !.focusMode = m]

\* updateSetting(key, value) called with a value of the slider's range
CallUpdateSetting(key, value) ==
    /\ actions < MaxActions
    /\ actions' = actions + 1
    /\ value \in SliderValues(key)
    /\ value # settings[key]
    /\ updateSetting(key, value)

NextUpdate ==
    \/ \E key \in SliderFields : \E value \in SliderValues(key) :
          CallUpdateSetting(key, value)
    \/ ToggleFocusMode
    \/ \E i \in DOMAIN applies : ApplyAccepted(i)
    \/ \E i \in DOMAIN applies : ApplyRejected(i)

SpecUpdate == InitUpdate /\ [][NextUpdate]_vars

----------------------------------------------------------------------------
(* Properties *)

InRange(v, r) == r.min <= v /\ v <= r.max

\* The stream startStream last assigned to streamRef.current
Held == streams[The(streamRef)]

\* The most recently issued open has resolved / has resolved with a stream
LatestResolved == \A j \in DOMAIN opens : opens[j].seq # issued
LatestSucceeded == \E j \in DOMAIN streams : streams[j].seq = issued

\* Open i was issued before a later one
Stale(i) == opens[i].seq < issued

\* C1: once every open has resolved, and the last one issued yielded a stream,
\* the held stream belongs to the device of the last open call (the selected
\* device): a late result of a superseded open is discarded.
C1_LastRequestWins ==
    (mounted /\ opens = <<>> /\ LatestSucceeded)
        => (streamRef # {} /\ Held.device = selectedDeviceId)

\* C2: at most one stream obtained by startStream has un-stopped tracks.
C2_AtMostOneLiveStream ==
    Cardinality({j \in DOMAIN streams : streams[j].live}) <= 1

\* C3: once the newest open has resolved, the late completion of a superseded
\* open (success or failure) leaves capabilities, settings and error as they
\* were.
C3_StaleOpenDiscarded ==
    [][\A i \in DOMAIN opens :
          (/\ mounted
           /\ Stale(i)
           /\ LatestResolved
           /\ \/ \E hw \in HwReports(opens[i].device) : OpenResolve(i, hw)
              \/ OpenReject(i))
          => UNCHANGED <<capabilities, settings, error>>]_vars

\* C4: after the session has ended and every pending open has resolved, every
\* stream startStream obtained has its tracks stopped.
C4_NoLiveStreamAfterEnd ==
    (~mounted /\ opens = <<>>) => \A j \in DOMAIN streams : ~streams[j].live

\* C5: after reconciliation every numeric field that has a range in the
\* capability set lies within [min, max] of that range.
C5_ReconciledInRange ==
    recon.done =>
        \A f \in NumFields :
            recon.caps[f] # {} => InRange(recon.out[f], The(recon.caps[f]))

\* C6: a field the hardware reports a value for (0 included) is reconciled to
\* that value; a field it reports no value for is reconciled to the minimum
\* of its range, when it has one.
C6_ReconcilePrecedence ==
    recon.done =>
        \A f \in NumFields :
            /\ recon.hw[f] # {} => recon.out[f] = The(recon.hw[f])
            /\ (recon.hw[f] = {} /\ recon.caps[f] # {})
                   => recon.out[f] = The(recon.caps[f]).min

\* C7: in every state of the running session every numeric field of settings
\* lies within the range the held capability set gives it, when it gives one.
C7_SettingsWithinCapabilities ==
    mounted =>
        \A f \in NumFields :
            capabilities[f] # {} => InRange(settings[f], The(capabilities[f]))

\* C8: a user update stores the requested value in the settings model at once;
\* when the hardware then rejects it, the settings model, the held stream and
\* its liveness and the error state are left as they are, and no exception
\* escapes.
C8_RejectionAbsorbed ==
    [][/\ \A key \in SliderFields : \A value \in SliderValues(key) :
            UpdateSetting(key, value) => settings'[key] = value
       /\ \A i \in DOMAIN applies :
            ApplyRejected(i)
            => (/\ settings' = settings
                /\ streamRef' = streamRef
                /\ streams' = streams
                /\ error' = error
                /\ ~uncaught')]_vars

\* C8 witness: a rejected update has been absorbed: the warning was logged,
\* zoom still holds the value the user dragged it to on device "a", the
\* stream is held and live and no error is shown.
C8_Witness ==
    /\ mounted /\ warned /\ applies = <<>>
    /\ streamRef # {} /\ Held.live /\ Held.device = "a"
    /\ settings.zoom = 5
    /\ error = NoError /\ ~uncaught

\* C9: a user update of a field the held capability set has no range for
\* issues no constraint to the stream.
C9_UnrangedFieldNotSent ==
    [][\A key \in SliderFields : \A value \in SliderValues(key) :
          (capabilities[key] = {} /\ UpdateSetting(key, value))
          => applies' = applies]_vars

\* C10: a refresh (the click, and the completion of any pending enumeration)
\* while a stream is held and live leaves the selected device, the held stream
\* and its tracks as they are and issues no open.
C10_RefreshLeavesStream ==
    [][(/\ mounted /\ streamRef # {} /\ Held.live
        /\ \/ Refresh
           \/ \E i \in DOMAIN enums : PermissionDenied(i)
           \/ \E i \in DOMAIN enums, list \in EnumResults : EnumerateResolve(i, list))
       => UNCHANGED <<selectedDeviceId, streamRef, streams, opens>>]_vars

\* C11: whenever getCameras fails because permission is refused, the session
\* shows the permission error and the device list is empty afterwards, also
\* when an earlier enumeration had succeeded.
C11_PermissionDeniedEmptiesDevices ==
    [][\A i \in DOMAIN enums :
          (mounted /\ PermissionDenied(i))
          => (error' = PermError /\ devices' = <<>>)]_vars

\* C12: a rejected stream open shows the stream error, which is not the
\* permission error, and while that error is shown no open is issued unless
\* the user selects a device.
C12_FailedOpenNotRetried ==
    [][/\ \A i \in DOMAIN opens :
            (mounted /\ OpenReject(i))
            => (error' = StreamError /\ error' # PermError)
       /\ (mounted /\ error = StreamError /\ issued' # issued)
            => \E d \in DeviceIds : SelectDevice(d)]_vars

\* C13: the stream getCameras obtains to get permission is stopped once the
\* call has completed: no completed enumeration leaves a live stream behind.
C13_PermissionStreamStopped == ~permLive

\* C14: user updates never lose each other: an update of one field stores its
\* value and leaves every other field as the latest model had it, a focus-mode
\* toggle changes the focus mode and nothing else, also while earlier updates
\* are still being applied, and between reconciliations nothing but a user
\* update changes the settings model.
C14_UpdatesNotLost ==
    [][/\ \A key \in SliderFields : \A value \in SliderValues(key) :
            UpdateSetting(key, value)
            => (/\ settings'[key] = value
                /\ \A f \in (DOMAIN settings) \ {key} : settings'[f] = settings[f])
       /\ ToggleFocusMode
            => (/\ settings'.focusMode # settings.focusMode
                /\ settings'.focusMode \in {"continuous", "manual"}
                /\ \A f \in NumFields : settings'[f] = settings[f])
       /\ settings' # settings
            => (\/ \E key \in SliderFields : \E value \in SliderValues(key) :
                      UpdateSetting(key, value)
                \/ ToggleFocusMode
                \/ \E i \in DOMAIN opens : \E hw \in HwReports(opens[i].device) :
                      OpenResolve(i, hw))]_vars

\* C14 witness: zoom and brightness were dragged in rapid succession on
\* device "a" (both constraints are still being applied) and the model holds
\* both values.
C14_Witness ==
    /\ mounted /\ streamRef # {} /\ Held.device = "a"
    /\ Len(applies) = 2
    /\ settings.zoom = 5 /\ settings.brightness = 50

\* C15: a field the hardware reports no value for and the capability set has
\* no range for keeps, through reconciliation, the value it had in the prior
\* settings model, whatever that value was.
C15_UnreportedUnrangedKeepsPrior ==
    recon.done =>
        \A f \in NumFields :
            (recon.hw[f] = {} /\ recon.caps[f] = {}) => recon.out[f] = recon.prior[f]

\* C16: a generation invoked with no API key never reaches the service call,
\* it ends by showing exactly the missing-key message in the script panel, and
\* no failure of the service call shows that message.
C16_MissingKeyFailsBeforeService ==
    [][/\ \A i \in DOMAIN gens :
            ~gens[i].key
            => (/\ gens[i].at # "service"
                /\ ~GenerateResolve(i)
                /\ \A msg \in ServiceErrors : ~GenerateReject(i, msg)
                /\ (mounted /\ GenerateMissingKey(i)) => genError' = MissingKeyError)
       /\ \A i \in DOMAIN gens : \A msg \in ServiceErrors :
            (mounted /\ GenerateReject(i, msg))
            => (genError' = msg /\ genError' # MissingKeyError)]_vars

\* C16 witness: a generation without a key has failed: the panel shows the
\* missing-key message, no call is outstanding and no script was produced.
C16_Witness ==
    /\ mounted /\ genError = MissingKeyError
    /\ gens = <<>> /\ ~isLoading /\ generatedScript = ""

\* C17: at most one generateSystemScript call is outstanding at any time, and
\* the generate button is disabled exactly while one is: from the click until
\* the call resolves or fails, and enabled again after either outcome.
C17_OneGenerationOutstanding ==
    /\ Len(gens) <= 1
    /\ mounted => (isLoading <=> gens # <<>>)

\* C17 witness: a first generation has resolved with a script, the button was
\* enabled again and a second generation is now outstanding.
C17_Witness ==
    /\ mounted /\ generatedScript = "script"
    /\ isLoading /\ Len(gens) = 1

C19_GenerationLeavesCapture ==
    [][/\ (\/ \E key \in BOOLEAN : Generate(key)
           \/ \E i \in DOMAIN gens :
                 \/ GenerateMissingKey(i)
                 \/ GenerateResolve(i)
                 \/ \E msg \in ServiceErrors : GenerateReject(i, msg))
          => UNCHANGED <<selectedDeviceId, streamRef, streams, capabilities,
                         settings, error, devices, opens, applies>>
       /\ \A i \in DOMAIN gens :
            (mounted /\ (GenerateMissingKey(i)
                         \/ \E msg \in ServiceErrors : GenerateReject(i, msg)))
            => (genError' # NoError /\ error' = error)]_vars

\* C19 witness: a generation has failed while a stream is held and live: the
\* script panel shows the failure, the capture error banner shows none.
C19_Witness ==
    /\ mounted /\ streamRef # {} /\ Held.live
    /\ genError \in ServiceErrors /\ gens = <<>>
    /\ error = NoError

\* C21: every constraint sent to the hardware goes to the live stream: when an
\* update is issued, the stream it is applied to has un-stopped tracks and was
\* opened for the selected device, also while an open is in flight and after
\* an open has failed.
C21_ConstraintTargetsLiveStream ==
    [][(mounted /\ Len(applies') = Len(applies) + 1)
       => LET sent == applies'[Len(applies')]
          IN /\ streams[sent.stream].live
             /\ streams[sent.stream].device = selectedDeviceId]_vars

\* C22: in every state the focus mode of the settings model is continuous or
\* manual, whatever focus mode the hardware reports when a stream opens.
C22_FocusModeIsVariant == settings.focusMode \in {"continuous", "manual"}

\* C23: whenever a new stream is requested (by a user selection or by the
\* selection an enumeration makes, with or without a stream held, with or
\* without an error shown), the request is in flight only with every track of
\* the stream the session holds at that moment stopped, and the held stream
\* is still the one held before.
C23_ReleaseBeforeRequest ==
    [][issued' # issued
       => (/\ issued' = issued + 1
           /\ \E i \in DOMAIN opens' : opens'[i].seq = issued'
           /\ streamRef' = streamRef
           /\ \A j \in streamRef : ~streams'[j].live)]_vars

\* C23 witness: a stream was requested while the stream of the previous
\* request was held and live: the new request is in flight and the held
\* stream, the result of the request before it, has its tracks stopped.
C23_Witness ==
    /\ mounted /\ streamRef # {}
    /\ Held.seq = issued - 1 /\ ~Held.live
    /\ \E i \in DOMAIN opens : opens[i].seq = issued

\* C24: a failed open is recoverable by selecting a device: while the stream
\* error is shown, a selection issues a stream request for the device chosen,
\* and when the most recent request succeeds the session holds a live stream
\* of the selected device and shows no error.
C24_FailedOpenRecoverable ==
    [][/\ \A d \in DeviceIds :
            (error = StreamError /\ SelectDevice(d))
            => (/\ selectedDeviceId' = d
                /\ issued' = issued + 1
                /\ \E i \in DOMAIN opens' : opens'[i] = [seq |-> issued', device |-> d])
       /\ \A i \in DOMAIN opens : \A hw \in HwReports(opens[i].device) :
            (mounted /\ opens[i].seq = issued /\ OpenResolve(i, hw))
            => (/\ error' = NoError
                /\ streamRef' # {}
                /\ streams'[The(streamRef')].live
                /\ streams'[The(streamRef')].device = selectedDeviceId'
                /\ capabilities' = HwCaps(selectedDeviceId'))]_vars

\* C24 witness: the first open was rejected, the user selected the other
\* device and its open succeeded: the only stream the session ever obtained
\* is the one of the second request, it is held and live, and no error is
\* shown.
C24_Witness ==
    /\ mounted /\ actions = 1 /\ issued = 2 /\ opens = <<>>
    /\ Len(streams) = 1 /\ streamRef = {1}
    /\ Held.seq = 2 /\ Held.live /\ Held.device = selectedDeviceId
    /\ error = NoError

\* C25: a call of updateSetting for one field, in any focus mode, sends the
\* held stream exactly one constraint, carrying that field and its value and
\* nothing else, requests no stream, and leaves the held stream and its
\* tracks, the selected device, the capability set and the device list as
\* they are.
C25_UpdateSendsOneField ==
    [][\A key \in SliderFields : \A value \in SliderValues(key) :
          CallUpdateSetting(key, value)
          => (/\ streamRef # {}
                 => applies' = Append(applies, [stream |-> The(streamRef), field |-> key,
                                                num |-> value, mode |-> ""])
              /\ Len(applies') <= Len(applies) + 1
              /\ UNCHANGED <<streamRef, streams, selectedDeviceId, capabilities,
                             devices, opens, issued>>)]_vars

\* C25 witness: updateSetting was called for focusDistance while the focus
\* mode is continuous: the one constraint in flight carries focusDistance and
\* the value now in the model, for the held stream.
C25_Witness ==
    /\ actions = 1 /\ settings.focusMode = "continuous"
    /\ streamRef # {} /\ Held.live
    /\ applies = <<[stream |-> The(streamRef), field |-> "focusDistance",
                    num |-> settings.focusDistance, mode |-> ""]>>

\* The capability set of the stream in the stream handle, none without one
HeldCapabilities == IF streamRef = {} THEN NoCapabilities ELSE HwCaps(Held.device)

\* C26: in every state of the running session the capability set is the one
\* of the stream in the stream handle, empty while no stream was ever held,
\* and the two are only replaced in the same step, by an open that succeeds.
C26_CapabilitiesOfHeldStream ==
    /\ [](mounted => capabilities = HeldCapabilities)
    /\ [][(mounted /\ (streamRef' # streamRef \/ capabilities' # capabilities))
          => (/\ \E i \in DOMAIN opens : \E hw \in HwReports(opens[i].device) :
                    OpenResolve(i, hw)
              /\ streamRef' = {Len(streams')}
              /\ capabilities' = HwCaps(streams'[Len(streams')].device))]_vars

\* C26 witness: a second open has succeeded, for another device than the
\* first: the handle holds the second stream and the capability set is the
\* one of its device.
C26_Witness ==
    /\ mounted /\ Len(streams) = 2 /\ streamRef = {2}
    /\ streams[1].device # streams[2].device
    /\ capabilities = HwCaps(streams[2].device)
    /\ capabilities # HwCaps(streams[1].device)

\* C27: a failed open changes nothing but the error state: the step that
\* issues an open leaves the settings model and the capability set as they
\* are and has the held stream stopped, and the step in which an open is
\* rejected leaves settings, capabilities, the stream handle, the streams, the
\* selection and the device list as they are and shows the stream error.
C27_FailedOpenOnlySetsError ==
    [][/\ issued' # issued
            => (/\ UNCHANGED <<settings, capabilities, streamRef>>
                /\ \A j \in streamRef : ~streams'[j].live)
       /\ \A i \in DOMAIN opens :
            OpenReject(i)
            => (/\ UNCHANGED <<settings, capabilities, streamRef, streams,
                               selectedDeviceId, devices, applies>>
                /\ mounted => error' = StreamError)]_vars

\* C27 witness: the open of a second device was rejected while the stream of
\* the first was held: the stream error is shown, the held stream is the
\* stopped one of the first device, and the capability set is still the one
\* read from it.
C27_Witness ==
    /\ mounted /\ error = StreamError /\ opens = <<>>
    /\ streamRef # {} /\ ~Held.live /\ Held.device # selectedDeviceId
    /\ capabilities = HwCaps(Held.device)

\* C28: in every state of the running session the selected device id is empty
\* or the id of a device of the current device list, also after an
\* enumeration whose result no longer holds the selected device.
C28_SelectionInDeviceList ==
    mounted => (selectedDeviceId = "" \/ \E i \in DOMAIN devices : devices[i] = selectedDeviceId)

====
